---- MODULE Spec2Model ----
(***************************************************************************)
(* WhatsappChat.__init__ and WhatsappChat.__aggregate_by_time of           *)
(* src/whatsappevaluator/evaluator.py as a state machine.                  *)
(*                                                                         *)
(* Text is modelled by TLA+ strings (Len, SubSeq and \o act on them as on  *)
(* Python str).  A datetime is the record [year, month, day, hour,         *)
(* minute]; a pandas Timestamp is the pair [day |-> proleptic Gregorian    *)
(* ordinal, minute |-> minute of the day].  An aggregate table is the set  *)
(* of its rows.  One emoji glyph is written "@".                           *)
(***************************************************************************)
EXTENDS Integers, Sequences, FiniteSets, TLC

VARIABLES chat_file, time_format, pc, opened, lines, idx,
          times, speakers, messages, err, attrs,
          chat, daily_chat, weekly_chat, monthly_chat

vars == <<chat_file, time_format, pc, opened, lines, idx,
          times, speakers, messages, err, attrs,
          chat, daily_chat, weekly_chat, monthly_chat>>

-----------------------------------------------------------------------------
(* Bounds of the model *)

\* number of lines after the first one in a transcript
MaxBody == 3

-----------------------------------------------------------------------------
(* Strings *)

Ch(s, i) == SubSeq(s, i, i)

\* s[k:] of Python, k counted from 0; empty when k >= len(s)
SliceFrom(s, k) == IF k >= Len(s) THEN "" ELSE SubSeq(s, k + 1, Len(s))

\* s[:k] of Python
SliceTo(s, k) == IF k <= 0 THEN "" ELSE SubSeq(s, 1, IF k < Len(s) THEN k ELSE Len(s))

Digits == {"0", "1", "2", "3", "4", "5", "6", "7", "8", "9"}

DigitVal(c) ==
    CASE c = "0" -> 0 [] c = "1" -> 1 [] c = "2" -> 2 [] c = "3" -> 3
      [] c = "4" -> 4 [] c = "5" -> 5 [] c = "6" -> 6 [] c = "7" -> 7
      [] c = "8" -> 8 [] c = "9" -> 9

\* 1-based position of the first occurrence of c in s, 0 when there is none
RECURSIVE FindFrom(_, _, _)
FindFrom(s, c, i) ==
    IF i > Len(s) THEN 0
    ELSE IF Ch(s, i) = c THEN i
    ELSE FindFrom(s, c, i + 1)

Find(s, c) == FindFrom(s, c, 1)

\* 1-based position of the last occurrence of c in s, 0 when there is none
RECURSIVE RFindFrom(_, _, _)
RFindFrom(s, c, i) ==
    IF i < 1 THEN 0
    ELSE IF Ch(s, i) = c THEN i
    ELSE RFindFrom(s, c, i - 1)

RFind(s, c) == RFindFrom(s, c, Len(s))

\* number of occurrences of the characters of set cs in s
RECURSIVE CountIn(_, _, _)
CountIn(s, cs, i) ==
    IF i > Len(s) THEN 0
    ELSE (IF Ch(s, i) \in cs THEN 1 ELSE 0) + CountIn(s, cs, i + 1)

-----------------------------------------------------------------------------
(* The locale tables.  In a pattern "d" stands for \d and every other      *)
(* character for itself; in a template the letters d m Y H M mark the      *)
(* digits of the %d %m %Y %H %M fields.                                    *)

TimeFormats == {"EU", "NA", "JP"}

patterns ==
    [f \in TimeFormats |->
        CASE f = "EU" -> "dd/dd/dddd, dd:dd"
          [] f = "NA" -> "dd/dd/dddd, dd:dd"
          [] f = "JP" -> "dddd/dd/dd, dd:dd"]

datetimes ==
    [f \in TimeFormats |->
        CASE f = "EU" -> "dd/mm/YYYY, HH:MM"
          [] f = "NA" -> "mm/dd/YYYY, HH:MM"
          [] f = "JP" -> "YYYY/mm/dd, HH:MM"]

\* re.match(pattern, line): the pattern matches a prefix of line
ReMatch(pattern, line) ==
    /\ Len(line) >= Len(pattern)
    /\ \A i \in 1..Len(pattern) :
          IF Ch(pattern, i) = "d" THEN Ch(line, i) \in Digits
          ELSE Ch(line, i) = Ch(pattern, i)

\* match.group(): the matched text
MatchGroup(pattern, line) == SubSeq(line, 1, Len(pattern))

\* the number written by the digits of text at the places where the template
\* has the field letter
RECURSIVE FieldFrom(_, _, _, _, _)
FieldFrom(text, template, letter, i, acc) ==
    IF i > Len(template) THEN acc
    ELSE IF Ch(template, i) = letter
         THEN FieldFrom(text, template, letter, i + 1, 10 * acc + DigitVal(Ch(text, i)))
         ELSE FieldFrom(text, template, letter, i + 1, acc)

Field(text, template, letter) == FieldFrom(text, template, letter, 1, 0)

-----------------------------------------------------------------------------
(* The calendar of datetime *)

IsLeap(y) == (y % 4 = 0) /\ ((y % 100 # 0) \/ (y % 400 = 0))

DaysInMonth(y, m) ==
    IF m = 2 THEN (IF IsLeap(y) THEN 29 ELSE 28)
    ELSE IF m \in {4, 6, 9, 11} THEN 30 ELSE 31

DaysBeforeYear(y) ==
    365 * (y - 1) + ((y - 1) \div 4) - ((y - 1) \div 100) + ((y - 1) \div 400)

RECURSIVE DaysBeforeMonth(_, _)
DaysBeforeMonth(y, m) ==
    IF m <= 1 THEN 0 ELSE DaysBeforeMonth(y, m - 1) + DaysInMonth(y, m - 1)

\* date.toordinal(): 0001-01-01 is day 1
ToOrdinal(y, m, d) == DaysBeforeYear(y) + DaysBeforeMonth(y, m) + d

\* mutant: only the time of day is validated
StrptimeFailsTimeOnly(text, template) ==
    \/ Field(text, template, "H") > 23
    \/ Field(text, template, "M") > 59

\* datetime.strptime(text, template) raises ValueError
StrptimeFails(text, template) ==
    LET y == Field(text, template, "Y")
        m == Field(text, template, "m")
        d == Field(text, template, "d")
        H == Field(text, template, "H")
        M == Field(text, template, "M")
    IN  \/ y < 1
        \/ m < 1 \/ m > 12
        \/ d < 1 \/ d > DaysInMonth(y, m)
        \/ H > 23
        \/ M > 59

\* datetime.strptime(text, template) when it does not raise
Strptime(text, template) ==
    [year   |-> Field(text, template, "Y"),
     month  |-> Field(text, template, "m"),
     day    |-> Field(text, template, "d"),
     hour   |-> Field(text, template, "H"),
     minute |-> Field(text, template, "M")]

\* width of the prefix cut off a stamp line: line[20:]
PrefixLen == 20

\* line[20:].split(":", 1) has two parts
SplitOk(line) == Find(SliceFrom(line, PrefixLen), ":") > 0

SplitSpeaker(line) ==
    LET rest == SliceFrom(line, PrefixLen)
    IN  SliceTo(rest, Find(rest, ":") - 1)

SplitMessage(line) ==
    LET rest == SliceFrom(line, PrefixLen)
    IN  SliceFrom(rest, Find(rest, ":"))

\* Path.suffix of a path that is a single component
Suffix(name) ==
    LET p == RFind(name, ".")
    IN  IF 1 < p /\ p < Len(name) THEN SliceFrom(name, p - 1) ELSE ""

\* mutant: any extension is accepted
HasAnySuffix(name) == Suffix(name) # ""

\* chat_file.suffix == ".txt"
HasTxtSuffix(name) == Suffix(name) = ".txt"

\* mutant: the loop runs over all of lines
LoopStartAll == 2 - 1

\* lines[1:]: the loop starts at the second line
LoopStart == 2

\* mutant: a continuation line with no record before it is passed over
ContinuationNeverFails(msgs) == FALSE

\* messages[-1] of an empty list raises IndexError
ContinuationFails(msgs) == Len(msgs) = 0

\* mutant: the line is added to the first record
AppendContinuationToFirst(msgs, line) == [msgs EXCEPT ![1] = @ \o line]

\* messages[-1] = messages[-1] + line
AppendContinuation(msgs, line) == [msgs EXCEPT ![Len(msgs)] = @ \o line]

-----------------------------------------------------------------------------
(* Enrichment, lines 79-99 *)

WeekdayNames ==
    <<"Monday", "Tuesday", "Wednesday", "Thursday", "Friday", "Saturday", "Sunday">>

\* Series.dt.dayofweek: Monday is 0
DayOfWeek(t) == (ToOrdinal(t.year, t.month, t.day) + 6) % 7

WeekdayName(t) == WeekdayNames[DayOfWeek(t) + 1]

EmojiGlyphs == {"@"}

\* emoji.emoji_count(message)
EmojiCount(message) == CountIn(message, EmojiGlyphs, 1)

\* mutant: the count is not clamped
ContainsEmojiUnclamped(count) == count

\* Series.where(count == 0, 1): the count is kept where it is 0, else 1
ContainsEmoji(count) == IF count = 0 THEN count ELSE 1

Enrich(speaker, message, time) ==
    [Speaker        |-> speaker,
     Message        |-> message,
     Time           |-> time,
     Weekday        |-> WeekdayName(time),
     Message_Length |-> Len(message),
     Emoji_Count    |-> EmojiCount(message),
     Contains_Emoji |-> ContainsEmoji(EmojiCount(message))]

\* the DataFrame of lines 79-99
BuildChat(spk, msg, tms) ==
    [i \in 1..Len(spk) |-> Enrich(spk[i], msg[i], tms[i])]

-----------------------------------------------------------------------------
(* Aggregation, lines 109-127.  A bucket is named by the day ordinal of    *)
(* its label, a Timestamp at midnight.                                     *)

Frequencies == {"D", "W", "M"}

\* mutant: weeks and months are labelled by their first day
BucketLeftLabel(freq, t) ==
    LET day == ToOrdinal(t.year, t.month, t.day)
    IN  CASE freq = "D" -> day
          [] freq = "W" -> day - DayOfWeek(t)
          [] freq = "M" -> ToOrdinal(t.year, t.month, 1)

\* pd.Grouper(key="Time", freq=...): "D" labels a day by itself; "W" is
\* W-SUN and "M" is month end, both closed and labelled on the right
Bucket(freq, t) ==
    LET day == ToOrdinal(t.year, t.month, t.day)
    IN  CASE freq = "D" -> day
          [] freq = "W" -> day + (6 - DayOfWeek(t))
          [] freq = "M" -> ToOrdinal(t.year, t.month, DaysInMonth(t.year, t.month))

GroupKey(freq, rec) == <<Bucket(freq, rec.Time), rec.Weekday, rec.Speaker>>

\* the rows of frame that fall into the group of key
Group(frame, freq, key) == {i \in 1..Len(frame) : GroupKey(freq, frame[i]) = key}

RECURSIVE SumOver(_, _, _)
SumOver(frame, column, rows) ==
    IF rows = {} THEN 0
    ELSE LET i == CHOOSE j \in rows : TRUE
         IN  frame[i][column] + SumOver(frame, column, rows \ {i})

\* mutant: the distinct messages are counted (nunique for count)
AggregateRowNunique(frame, freq, key) ==
    LET g == Group(frame, freq, key)
    IN  [Time                |-> key[1],
         Weekday             |-> key[2],
         Speaker             |-> key[3],
         Message_count       |-> Cardinality({frame[i].Message : i \in g}),
         Message_Length_sum  |-> SumOver(frame, "Message_Length", g),
         Contains_Emoji_mean |-> [num |-> SumOver(frame, "Contains_Emoji", g),
                                  den |-> Cardinality(g)]]

\* one row of groupby(...).agg(...).reset_index(); the mean is kept as the
\* fraction num / den
AggregateRow(frame, freq, key) ==
    LET g == Group(frame, freq, key)
    IN  [Time                |-> key[1],
         Weekday             |-> key[2],
         Speaker             |-> key[3],
         Message_count       |-> Cardinality(g),
         Message_Length_sum  |-> SumOver(frame, "Message_Length", g),
         Contains_Emoji_mean |-> [num |-> SumOver(frame, "Contains_Emoji", g),
                                  den |-> Cardinality(g)]]

\* __aggregate_by_time(time_aggregator): one row per group that occurs
AggregateByTime(frame, freq) ==
    {AggregateRow(frame, freq, GroupKey(freq, frame[i])) : i \in 1..Len(frame)}

-----------------------------------------------------------------------------
(* Inputs *)

FileTypes == {"str", "Path", "int"}

FileNames == {"chat.txt", "chat.log", "chat", ".txt"}

\* what the path names on disk
FileKinds == {"file", "dir", "missing"}

FormatInputs == TimeFormats \cup {"UK"}

HeaderPool ==
    {"01/02/2023, 09:00 - Messages are end-to-end encrypted.\n",
     "01/02/2023, 09:00 - Alice: first\n",
     "notice\n"}

BodyPool ==
    {"01/02/2023, 10:00 - Alice: Hello\n",
     "there\n",
     "01/02/2023, 10:05 - Bob: Hi!\n",
     "08/02/2023, 09:30 - Alice: ok@\n",
     "31/12/2024, 23:59 - Bob: bye@@\n",
     "01/02/2023, 10:07 - left\n",
     "01/02/2023, 10:09\n",
     "2023/02/08, 09:30 - Alice: @ok\n",
     "2023/02/01, 10:00 - Bob: Hi\n"}

SeqsUpTo(S, n) == UNION {[1..k -> S] : k \in 0..n}

\* the results of readlines()
Transcripts ==
    {<<>>} \cup {<<h>> \o body : h \in HeaderPool, body \in SeqsUpTo(BodyPool, MaxBody)}

-----------------------------------------------------------------------------
(* The constructor *)

NoError == [type |-> "", at |-> 0]

Init ==
    /\ chat_file \in [type : FileTypes, name : FileNames, kind : FileKinds]
    /\ time_format \in FormatInputs
    /\ pc = "check_type"
    /\ opened = FALSE
    /\ lines = <<>>
    /\ idx = 0
    /\ times = <<>>
    /\ speakers = <<>>
    /\ messages = <<>>
    /\ err = NoError
    /\ attrs = {}
    /\ chat = <<>>
    /\ daily_chat = {}
    /\ weekly_chat = {}
    /\ monthly_chat = {}

\* raise: the constructor ends, nothing more is assigned
Raise(type, at) ==
    /\ pc' = "error"
    /\ err' = [type |-> type, at |-> at]

\* lines 38-41
CheckType ==
    /\ pc = "check_type"
    /\ IF chat_file.type \notin {"Path", "str"}
       THEN Raise("ValueError", 39) /\ UNCHANGED chat_file
       ELSE /\ chat_file' = [chat_file EXCEPT !.type = "Path"]
            /\ pc' = "check_exists"
            /\ UNCHANGED err
    /\ UNCHANGED <<time_format, opened, lines, idx, times, speakers, messages,
                   attrs, chat, daily_chat, weekly_chat, monthly_chat>>

\* lines 42-43
CheckExists ==
    /\ pc = "check_exists"
    /\ IF chat_file.kind = "missing"
       THEN Raise("ValueError", 43)
       ELSE pc' = "check_suffix" /\ UNCHANGED err
    /\ UNCHANGED <<chat_file, time_format, opened, lines, idx, times, speakers,
                   messages, attrs, chat, daily_chat, weekly_chat, monthly_chat>>

\* lines 44-45
CheckSuffix ==
    /\ pc = "check_suffix"
    /\ IF ~HasTxtSuffix(chat_file.name)
       THEN Raise("ValueError", 45)
       ELSE pc' = "check_format" /\ UNCHANGED err
    /\ UNCHANGED <<chat_file, time_format, opened, lines, idx, times, speakers,
                   messages, attrs, chat, daily_chat, weekly_chat, monthly_chat>>

\* lines 46-47
CheckFormat ==
    /\ pc = "check_format"
    /\ IF time_format \notin DOMAIN patterns
       THEN Raise("ValueError", 47)
       ELSE pc' = "open" /\ UNCHANGED err
    /\ UNCHANGED <<chat_file, time_format, opened, lines, idx, times, speakers,
                   messages, attrs, chat, daily_chat, weekly_chat, monthly_chat>>

\* lines 50-56: open and readlines, then the three empty lists
ReadFile ==
    /\ pc = "open"
    /\ IF chat_file.kind # "file"
       THEN /\ Raise("IsADirectoryError", 50)
            /\ UNCHANGED <<opened, lines, idx>>
       ELSE /\ opened' = TRUE
            /\ \E content \in Transcripts : lines' = content
            /\ idx' = LoopStart
            /\ pc' = "loop"
            /\ UNCHANGED err
    /\ times' = <<>>
    /\ speakers' = <<>>
    /\ messages' = <<>>
    /\ UNCHANGED <<chat_file, time_format, attrs, chat,
                   daily_chat, weekly_chat, monthly_chat>>

\* lines 59-76: one pass of the loop over lines[1:]
ParseLine ==
    /\ pc = "loop"
    /\ idx <= Len(lines)
    /\ LET line == lines[idx]
           pattern == patterns[time_format]
       IN  IF ReMatch(pattern, line)
           THEN IF StrptimeFails(MatchGroup(pattern, line), datetimes[time_format])
                THEN /\ Raise("ValueError", 64)
                     /\ UNCHANGED <<idx, times, speakers, messages>>
                ELSE IF ~SplitOk(line)
                THEN /\ Raise("ValueError", 68)
                     /\ UNCHANGED <<idx, times, speakers, messages>>
                ELSE /\ times' = Append(times, Strptime(MatchGroup(pattern, line),
                                                        datetimes[time_format]))
                     /\ speakers' = Append(speakers, SplitSpeaker(line))
                     /\ messages' = Append(messages, SplitMessage(line))
                     /\ idx' = idx + 1
                     /\ UNCHANGED <<pc, err>>
           ELSE IF ContinuationFails(messages)
                THEN /\ Raise("IndexError", 76)
                     /\ UNCHANGED <<idx, times, speakers, messages>>
                ELSE /\ messages' = AppendContinuation(messages, line)
                     /\ idx' = idx + 1
                     /\ UNCHANGED <<pc, err, times, speakers>>
    /\ UNCHANGED <<chat_file, time_format, opened, lines, attrs, chat,
                   daily_chat, weekly_chat, monthly_chat>>

\* lines 79-102: the DataFrame and its derived columns; with no rows the
\* Time column is not datetime-like and .dt raises
BuildFrame ==
    /\ pc = "loop"
    /\ idx > Len(lines)
    /\ IF Len(times) = 0
       THEN /\ Raise("AttributeError", 82)
            /\ UNCHANGED <<chat, attrs>>
       ELSE /\ chat' = BuildChat(speakers, messages, times)
            /\ attrs' = attrs \cup {"chat"}
            /\ pc' = "daily"
            /\ UNCHANGED err
    /\ UNCHANGED <<chat_file, time_format, opened, lines, idx, times, speakers,
                   messages, daily_chat, weekly_chat, monthly_chat>>

\* the three calls of lines 105-107
DailyChat(frame) == AggregateByTime(frame, "D")

\* mutant: the weekly table is grouped by month
WeeklyChatByMonth(frame) == AggregateByTime(frame, "M")

WeeklyChat(frame) == AggregateByTime(frame, "W")

MonthlyChat(frame) == AggregateByTime(frame, "M")

\* line 105
AggregateDaily ==
    /\ pc = "daily"
    /\ daily_chat' = DailyChat(chat)
    /\ attrs' = attrs \cup {"daily_chat"}
    /\ pc' = "weekly"
    /\ UNCHANGED <<chat_file, time_format, opened, lines, idx, times, speakers,
                   messages, err, chat, weekly_chat, monthly_chat>>

\* line 106
AggregateWeekly ==
    /\ pc = "weekly"
    /\ weekly_chat' = WeeklyChat(chat)
    /\ attrs' = attrs \cup {"weekly_chat"}
    /\ pc' = "monthly"
    /\ UNCHANGED <<chat_file, time_format, opened, lines, idx, times, speakers,
                   messages, err, chat, daily_chat, monthly_chat>>

\* line 107
AggregateMonthly ==
    /\ pc = "monthly"
    /\ monthly_chat' = MonthlyChat(chat)
    /\ attrs' = attrs \cup {"monthly_chat"}
    /\ pc' = "done"
    /\ UNCHANGED <<chat_file, time_format, opened, lines, idx, times, speakers,
                   messages, err, chat, daily_chat, weekly_chat>>

Next ==
    \/ CheckType
    \/ CheckExists
    \/ CheckSuffix
    \/ CheckFormat
    \/ ReadFile
    \/ ParseLine
    \/ BuildFrame
    \/ AggregateDaily
    \/ AggregateWeekly
    \/ AggregateMonthly

Spec == Init /\ [][Next]_vars

-----------------------------------------------------------------------------
(* Properties of the parse loop *)

\* the line numbers, among from..to, of the lines that match the stamp pattern
StampLines(from, to) ==
    {k \in from..to : k <= Len(lines) /\ ReMatch(patterns[time_format], lines[k])}

\* the line number of the j-th stamp line after the first line
StampLine(j) ==
    CHOOSE k \in StampLines(2, Len(lines)) : Cardinality(StampLines(2, k)) = j

RECURSIVE JoinLines(_, _)
JoinLines(from, to) ==
    IF from > to THEN "" ELSE lines[from] \o JoinLines(from + 1, to)

Parsed == pc \in {"daily", "weekly", "monthly", "done"}

\* C1: once the file is read, after each processed line the number of records
\* equals the number of stamp-matching lines among the processed lines after
\* the first one, and a finished parse has one record per stamp-matching line
\* of lines[1:]; the first line is never counted
C1_RecordsEqualStampLines ==
    opened =>
        /\ Len(messages) = Cardinality(StampLines(2, idx - 1))
        /\ Len(speakers) = Len(messages)
        /\ Len(times) = Len(messages)
        /\ Parsed => Len(chat) = Cardinality(StampLines(2, Len(lines)))

\* a finished parse of a transcript whose first line is stamp-shaped
C1_Witness ==
    /\ pc = "done"
    /\ ReMatch(patterns[time_format], lines[1])
    /\ Len(chat) = 2
    /\ Cardinality(StampLines(1, Len(lines))) = 3

\* C2: every record's message is the body of its stamp line followed by the
\* raw text of the processed non-stamp lines up to the next stamp line, in file
\* order; so a continuation line is only ever added to the newest record
C2_ContinuationFolding ==
    opened =>
        \A j \in 1..Len(messages) :
            LET p == StampLine(j)
                q == IF j < Len(messages) THEN StampLine(j + 1) ELSE idx
            IN  /\ messages[j] = SplitMessage(lines[p]) \o JoinLines(p + 1, q - 1)
                /\ \A k \in (p + 1)..(q - 1) :
                      ~ReMatch(patterns[time_format], lines[k])

\* a finished parse where an earlier record took a continuation line and a
\* later record follows it
C2_Witness ==
    /\ pc = "done"
    /\ Len(messages) = 2
    /\ StampLine(2) = StampLine(1) + 2
    /\ messages[1] = SplitMessage(lines[StampLine(1)]) \o lines[StampLine(1) + 1]
    /\ messages[2] = SplitMessage(lines[StampLine(2)])

\* C6: when the first line after the discarded one is not a stamp line, the
\* constructor gets no further than that line: it raises there, with no
\* record made and the line not passed over
C6_OrphanContinuationFails ==
    (opened /\ Len(lines) >= 2 /\ ~ReMatch(patterns[time_format], lines[2])) =>
        /\ idx = 2
        /\ Len(messages) = 0
        /\ pc \in {"loop", "error"}
        /\ pc = "error" => err = [type |-> "IndexError", at |-> 76]

C6_Witness ==
    /\ pc = "error"
    /\ err.at = 76
    /\ Len(lines) = 4
    /\ ~ReMatch(patterns[time_format], lines[2])
    /\ ReMatch(patterns[time_format], lines[3])

\* a datetime that names a day of the calendar
ValidDateTime(t) ==
    /\ t.year \in 1..9999
    /\ t.month \in 1..12
    /\ t.day >= 1
    /\ t.day <= (IF t.month = 2 THEN (IF IsLeap(t.year) THEN 29 ELSE 28)
                 ELSE IF t.month \in {4, 6, 9, 11} THEN 30 ELSE 31)
    /\ t.hour \in 0..23
    /\ t.minute \in 0..59

\* the text after the 20-character prefix of line k has a colon
HasColon(k) == \E i \in 21..Len(lines[k]) : Ch(lines[k], i) = ":"

\* C7: a stamp line that is not a calendar date under the locale, or has no
\* colon after its prefix, stops the constructor at that line: every stamp
\* line passed over gave a record with a valid time, an error leaves chat,
\* daily_chat, weekly_chat and monthly_chat unset, and the three lists have
\* equal length
C7_ParseFailureTerminal ==
    /\ Len(times) = Len(speakers) /\ Len(speakers) = Len(messages)
    /\ \A j \in 1..Len(times) : ValidDateTime(times[j])
    /\ opened => \A k \in StampLines(2, idx - 1) : HasColon(k)
    /\ pc = "error" =>
          /\ attrs = {}
          /\ chat = <<>> /\ daily_chat = {} /\ weekly_chat = {} /\ monthly_chat = {}
    /\ (pc = "error" /\ err.at \in {64, 68}) =>
          /\ err.type = "ValueError"
          /\ idx \in StampLines(2, Len(lines))
          /\ err.at = 68 => ~HasColon(idx)
    /\ Parsed => \A k \in StampLines(2, Len(lines)) : HasColon(k)

\* '31/12/2024, 23:59' read as month 31 under NA, after one record was made
C7_Witness ==
    /\ pc = "error"
    /\ err = [type |-> "ValueError", at |-> 64]
    /\ time_format = "NA"
    /\ SliceTo(lines[idx], 17) = "31/12/2024, 23:59"
    /\ Len(messages) = 1

\* C8: the file is read only after the type, existence, extension and locale
\* checks have all passed; with another extension than .txt or a locale other
\* than EU, NA, JP the constructor is still validating or has raised, and
\* nothing was opened or read
C8_ValidationBeforeRead ==
    LET name == chat_file.name
        txt == Len(name) > 4 /\ SliceFrom(name, Len(name) - 4) = ".txt"
        locale == time_format \in {"EU", "NA", "JP"}
    IN  /\ (opened \/ pc \in {"open", "loop"} \/ Parsed) =>
              /\ chat_file.type = "Path"
              /\ chat_file.kind # "missing"
              /\ txt
              /\ locale
        /\ (~txt \/ ~locale) =>
              /\ ~opened
              /\ lines = <<>>
              /\ pc \in {"check_type", "check_exists", "check_suffix",
                         "check_format", "error"}
              /\ pc = "error" => err.at \in {39, 43, 45, 47}

\* an unsupported locale is refused after the other three checks passed
C8_Witness ==
    /\ pc = "error"
    /\ err.at = 47
    /\ time_format = "UK"
    /\ chat_file.name = "chat.txt"
    /\ ~opened

-----------------------------------------------------------------------------
(* Properties of the records and the aggregate tables *)

\* the aggregate tables assigned so far, each with its frequency
Tables ==
    (IF "daily_chat" \in attrs THEN {[freq |-> "D", rows |-> daily_chat]} ELSE {})
    \cup (IF "weekly_chat" \in attrs THEN {[freq |-> "W", rows |-> weekly_chat]} ELSE {})
    \cup (IF "monthly_chat" \in attrs THEN {[freq |-> "M", rows |-> monthly_chat]} ELSE {})

DayOf(t) == ToOrdinal(t.year, t.month, t.day)

\* the records of chat counted by row: same bucket label, weekday and speaker
Members(tb, row) ==
    {i \in 1..Len(chat) :
        /\ chat[i].Speaker = row.Speaker
        /\ chat[i].Weekday = row.Weekday
        /\ Bucket(tb.freq, chat[i].Time) = row.Time}

RECURSIVE SumCounts(_)
SumCounts(rows) ==
    IF rows = {} THEN 0
    ELSE LET r == CHOOSE x \in rows : TRUE
         IN  r.Message_count + SumCounts(rows \ {r})

ExampleLines ==
    <<"01/02/2023, 10:00 - Alice: Hello\n",
      "there\n",
      "01/02/2023, 10:05 - Bob: Hi!\n">>

\* C3: the speaker is the text between the 20-character prefix and the first
\* colon and the message is the text after ': '; the EU example gives Alice
\* with "Hello\nthere\n" at 2023-02-01T10:00 and Bob with "Hi!\n" at
\* 2023-02-01T10:05, and two daily rows for that date, each of count 1
C3_ExampleRecords ==
    (pc = "done" /\ time_format = "EU" /\ SubSeq(lines, 2, Len(lines)) = ExampleLines) =>
        /\ speakers = <<"Alice", "Bob">>
        /\ messages = <<"Hello\nthere\n", "Hi!\n">>
        /\ times = <<[year |-> 2023, month |-> 2, day |-> 1, hour |-> 10, minute |-> 0],
                     [year |-> 2023, month |-> 2, day |-> 1, hour |-> 10, minute |-> 5]>>
        /\ LET rows == {r \in daily_chat : r.Time = ToOrdinal(2023, 2, 1)}
           IN  /\ Cardinality(rows) = 2
               /\ \A r \in rows : r.Message_count = 1

\* C4: in each aggregate table every record is counted by exactly one row,
\* every row counts at least one record, and the counts add up to the number
\* of records
C4_SumPreservation ==
    \A tb \in Tables :
        /\ \A i \in 1..Len(chat) :
              Cardinality({r \in tb.rows : i \in Members(tb, r)}) = 1
        /\ \A r \in tb.rows :
              /\ Members(tb, r) # {}
              /\ r.Message_count = Cardinality(Members(tb, r))
        /\ SumCounts(tb.rows) = Len(chat)

\* all three tables are there and one row counts two records
C4_Witness ==
    /\ pc = "done"
    /\ Len(chat) = 3
    /\ \E r \in daily_chat : r.Message_count = 2
    /\ Cardinality(monthly_chat) = 2

\* C5: contains_emoji is 0 for a count of 0 and 1 for any positive count; in
\* every row of every table the mean is a fraction between 0 and 1 over the
\* row's count, 0 exactly when no message of the group has an emoji and 1
\* exactly when all have
C5_EmojiMeanRange ==
    /\ \A i \in 1..Len(chat) :
          /\ chat[i].Emoji_Count = 0 => chat[i].Contains_Emoji = 0
          /\ chat[i].Emoji_Count > 0 => chat[i].Contains_Emoji = 1
    /\ \A tb \in Tables : \A r \in tb.rows :
          LET mean == r.Contains_Emoji_mean
              with == {i \in Members(tb, r) : \E k \in 1..Len(chat[i].Message) :
                                                 Ch(chat[i].Message, k) = "@"}
          IN  /\ mean.den = r.Message_count
              /\ 0 <= mean.num /\ mean.num <= mean.den
              /\ mean.num = Cardinality(with)
              /\ mean.num = 0 <=> with = {}
              /\ mean.num = mean.den <=> with = Members(tb, r)

\* a message with two emoji, and a monthly row whose mean is 1/2
C5_Witness ==
    /\ pc = "done"
    /\ \E i \in 1..Len(chat) : chat[i].Emoji_Count = 2
    /\ \E r \in monthly_chat : r.Contains_Emoji_mean = [num |-> 1, den |-> 2]

\* the first day of the month after the month of t
NextMonthStart(t) ==
    IF t.month = 12 THEN ToOrdinal(t.year + 1, 1, 1)
    ELSE ToOrdinal(t.year, t.month + 1, 1)

\* C9 as claimed: the time column is the start of the bucket (the date, the
\* first day of the 7-day week, the first day of the month) and every record
\* lies at or after it and before the next bucket's start
C9_BucketStart ==
    \A tb \in Tables : \A i \in 1..Len(chat) :
        \E r \in tb.rows :
            /\ r.Speaker = chat[i].Speaker
            /\ r.Weekday = chat[i].Weekday
            /\ r.Time <= DayOf(chat[i].Time)
            /\ CASE tb.freq = "D" -> DayOf(chat[i].Time) < r.Time + 1
                 [] tb.freq = "W" -> DayOf(chat[i].Time) < r.Time + 7
                 [] tb.freq = "M" -> /\ r.Time = ToOrdinal(chat[i].Time.year,
                                                           chat[i].Time.month, 1)
                                     /\ DayOf(chat[i].Time) < NextMonthStart(chat[i].Time)

\* C9 amended: the time column is the calendar date in the daily table, the
\* Sunday that ends the record's Monday-to-Sunday week in the weekly table and
\* the last day of the record's month in the monthly table; every record lies
\* after the previous bucket's label and not after its own
C9_BucketLabel ==
    \A tb \in Tables :
        /\ \A r \in tb.rows : \E i \in 1..Len(chat) :
              r.Speaker = chat[i].Speaker /\ r.Weekday = chat[i].Weekday
        /\ \A i \in 1..Len(chat) :
              \E r \in tb.rows :
                  /\ r.Speaker = chat[i].Speaker
                  /\ r.Weekday = chat[i].Weekday
                  /\ DayOf(chat[i].Time) <= r.Time
                  /\ CASE tb.freq = "D" -> r.Time = DayOf(chat[i].Time)
                       [] tb.freq = "W" -> /\ r.Time - 7 < DayOf(chat[i].Time)
                                           /\ (r.Time + 6) % 7 = 6
                       [] tb.freq = "M" -> r.Time + 1 = NextMonthStart(chat[i].Time)

\* a Wednesday record under a weekly label four days later and a monthly
\* label at the end of February
C9_Witness ==
    /\ pc = "done"
    /\ \E i \in 1..Len(chat) :
          /\ DayOf(chat[i].Time) = ToOrdinal(2023, 2, 1)
          /\ \E r \in weekly_chat : r.Time = ToOrdinal(2023, 2, 5)
          /\ \E r \in monthly_chat : r.Time = ToOrdinal(2023, 2, 28)

\* the rows d of the daily and w of the weekly table agree but for the label,
\* and d's date lies in the week that w's label ends
SameGroup(d, w) ==
    /\ w.Weekday = d.Weekday
    /\ w.Speaker = d.Speaker
    /\ w.Message_count = d.Message_count
    /\ w.Message_Length_sum = d.Message_Length_sum
    /\ w.Contains_Emoji_mean = d.Contains_Emoji_mean
    /\ d.Time <= w.Time /\ w.Time - 7 < d.Time

====
